---------------------------- MODULE Spec2Model ----------------------------
(***************************************************************************)
(* Model of edh-anti-meta.py: the catalogue fetch (fetch_all_scryfall), the  *)
(* de-duplication (collapse_by_oracle), the filters (apply_filters_async     *)
(* with is_ptk_strict under its own asyncio.Semaphore), the metric-fetch     *)
(* stage (fetch_deck_count under an asyncio.Semaphore), the bottom-K         *)
(* selector loop of main_async, and main_async as the sequence of them.      *)
(*                                                                           *)
(* Conventions.                                                              *)
(*  - Python None is the string "None" where the field is a string and the   *)
(*    number None (-1) where the field is Optional[int]: DECKS_RE can only   *)
(*    yield numbers >= 0, so -1 is free.                                     *)
(*  - Python's integers have no width. A deck count, and every key made of   *)
(*    it, is a wide number (a pair of integers, see Wide), so that a page    *)
(*    can state a count as large as the sentinel 10**12; the deck count None *)
(*    is Wide(None).                                                         *)
(*  - A document (the html of a metric page) is a sequence of tokens: the    *)
(*    digits "0".."9", ",", " " (white space), "decks" (the unit word, any   *)
(*    case) and "x" (any other character).                                   *)
(*  - A commander's name is a number: its rank in the lexicographic order of *)
(*    the names, the only thing the code uses a name for (the final sort).   *)
(*  - Python positions are 0-based; a position p is the TLA+ index p + 1.    *)
(***************************************************************************)
EXTENDS Integers, Sequences, FiniteSets, TLC

VARIABLES
    \* ---- configuration (args) and input of the metric stage
    bottom_k,        \* args.bottom_k
    concurrency,     \* args.concurrency
    include_errors,  \* args.include_errors
    only_positive,   \* args.only_positive
    commanders,      \* the set of candidates (ids 1..N, id = name rank)
    net,             \* net[c]: what the metric source does with c's request
    \* ---- fetch_deck_count tasks and the semaphore
    pc,              \* pc[c]: position of c's task
    sem_value,       \* sem._value
    sem_waiters,     \* sem._waiters, FIFO (a woken waiter stays until it resumes)
    woken,           \* the waiters whose future release() has completed
    result,          \* result[c]: the Result the task returns (NoResult before)
    attempts,        \* attempts[c]: session.get calls issued for c
    events,          \* events[c]: acquire / response / paced / release, in order
    \* ---- as_completed and the selector loop of main_async
    doneq,           \* completed tasks not yet taken by the loop, FIFO
    heap,            \* the heapq list of <<-val, seq, res>>
    seq,             \* next sequence number
    processed,       \* results processed by the loop
    admitted,        \* sequence of the results pushed, in push order
    mainpc,          \* "before" | "loop" | "shown"
    bottom,          \* the sorted drain of the heap
    display,         \* what is shown
    \* ---- collapse_by_oracle
    cards,           \* the input list
    ci,              \* index of the next card of the for loop (1-based)
    by_oracle,       \* the dict, as the sequence of <<key, card>> in insertion order
    cpc,             \* "loop" | "returned"
    pool,            \* the returned list (<<>> before the return)
    \* ---- fetch_all_scryfall
    site,            \* the catalogue source: what it answers to a request of a url
    url,             \* target of the next request
    params,          \* its parameters ("None" once a continuation is followed)
    fetched,         \* the local list `cards` of fetch_all_scryfall
    requests,        \* the requests issued so far, <<url, params>> in order
    fapc,            \* "idle" | "request" | "sleep" | "returned" | "raised"
    \* ---- apply_filters_async
    fcfg,            \* its keyword arguments
    fpool,           \* its argument `pool`
    prelim,          \* survivors of the first pass, as positions of fpool
    out,             \* the returned list, as positions of fpool
    fpc,             \* "idle" | "called" | "verify" | "returned" | "raised"
    vsem_value,      \* sem._value of the verification semaphore
    vsem_waiters,    \* sem._waiters, FIFO (a woken waiter stays until it resumes)
    vpc,             \* vpc[i]: position of the task check(fpool[i])
    vuri,            \* vuri[i]: the local `uri` of its is_ptk_strict call
    kept,            \* kept[i]: what the task returned ("c" | "None" | "pending")
    vrequests,       \* the verification requests issued, <<i, uri>> in order
    vdoneq           \* completed tasks not yet taken by the loop, FIFO

fetchVars  == <<pc, sem_value, sem_waiters, woken, result, attempts, events>>
selVars    == <<doneq, heap, seq, processed, admitted, mainpc, bottom, display>>
cfgVars    == <<bottom_k, concurrency, include_errors, only_positive, commanders, net>>
collapseVars == <<cards, ci, by_oracle, cpc, pool>>
catalogVars == <<site, url, params, fetched, requests, fapc>>
filterVars == <<fcfg, fpool, prelim, out, fpc, vsem_value, vsem_waiters, vpc,
                vuri, kept, vrequests, vdoneq>>
metricVars == <<cfgVars, fetchVars, selVars>>
upstreamVars == <<catalogVars, collapseVars, filterVars>>
vars == <<metricVars, upstreamVars>>

-----------------------------------------------------------------------------
(* Bounds of the model *)

MaxN == 2
MaxK == 2
MaxConc == 2
MaxCards == 3
MaxPages == 2

(* Program constants *)

\* Python's integers have no width and TLC's have 32 bits, so a deck count
\* (line 248), a rank-key or a sort key (line 314, 321, 331) is a wide number:
\* the pair <<hi, lo>> stands for hi * 10^6 + lo, with |lo| < 10^6 and hi, lo
\* never of opposite signs.

\* the wide number of an integer of 32 bits
Wide(n) ==
    IF n >= 0 THEN <<n \div 1000000, n % 1000000>>
    ELSE <<0 - ((0 - n) \div 1000000), 0 - ((0 - n) % 1000000)>>

\* -w
Neg(w) == <<0 - w[1], 0 - w[2]>>

\* a < b
WideLT(a, b) == a[1] < b[1] \/ (a[1] = b[1] /\ a[2] < b[2])

\* w * 10 + d, for w >= 0 and a digit d: int() reading one more digit
WideAppend(w, d) ==
    LET lo == w[2] * 10 + d
    IN  <<w[1] * 10 + lo \div 1000000, lo % 1000000>>

\* the six digits of lo, 0 <= lo < 10^6, with leading zeros
SixDigits(lo) ==
    LET t == ToString(lo)
    IN  CASE lo < 10 -> "00000" \o t
          [] lo < 100 -> "0000" \o t
          [] lo < 1000 -> "000" \o t
          [] lo < 10000 -> "00" \o t
          [] lo < 100000 -> "0" \o t
          [] OTHER -> t

\* str(w), for w >= 0
WideStr(w) == IF w[1] = 0 THEN ToString(w[2]) ELSE ToString(w[1]) \o SixDigits(w[2])

\* line 305: big = 10**12, that is 10^6 * 10^6 + 0
big == <<1000000, 0>>

None == -1

-----------------------------------------------------------------------------
\* extract_deck_count: DECKS_RE is a digit, then digits and commas, then
\* white space (one or more), then the word decks; the first match counts

Digits == {"0", "1", "2", "3", "4", "5", "6", "7", "8", "9"}

DigitVal(t) ==
    CASE t = "0" -> 0 [] t = "1" -> 1 [] t = "2" -> 2 [] t = "3" -> 3
      [] t = "4" -> 4 [] t = "5" -> 5 [] t = "6" -> 6 [] t = "7" -> 7
      [] t = "8" -> 8 [] t = "9" -> 9

\* the end (exclusive) of the greedy run [\d,]* that starts at index i
RECURSIVE RunEnd(_, _)
RunEnd(html, i) ==
    IF i <= Len(html) /\ (html[i] \in Digits \/ html[i] = ",")
    THEN RunEnd(html, i + 1) ELSE i

\* the end (exclusive) of the greedy run \s* that starts at index i
RECURSIVE SpaceEnd(_, _)
SpaceEnd(html, i) ==
    IF i <= Len(html) /\ html[i] = " " THEN SpaceEnd(html, i + 1) ELSE i

\* does DECKS_RE match with its first character at index i
MatchesAt(html, i) ==
    /\ i <= Len(html)
    /\ html[i] \in Digits
    /\ LET e == RunEnd(html, i + 1)
           s == SpaceEnd(html, e)
       IN  s > e /\ s <= Len(html) /\ html[s] = "decks"

\* int(m.group(1).replace(",", "")) of the group html[i .. e-1]
RECURSIVE GroupInt(_, _, _, _)
GroupInt(html, i, e, acc) ==
    IF i >= e THEN acc
    ELSE IF html[i] = "," THEN GroupInt(html, i + 1, e, acc)
    ELSE GroupInt(html, i + 1, e, WideAppend(acc, DigitVal(html[i])))

extract_deck_count(html) ==
    LET starts == {i \in 1..Len(html) : MatchesAt(html, i)}
    IN  IF starts = {} THEN Wide(None)
        ELSE LET i == CHOOSE j \in starts : \A k \in starts : j <= k
             IN  GroupInt(html, i, RunEnd(html, i + 1), Wide(0))

-----------------------------------------------------------------------------
(* The metric source: the documents and the transport errors of the model *)

Docs ==
    { <<"0", " ", "decks">>,                       \* 0 decks
      <<"x", "5", " ", " ", "decks", "x">>,        \* 5 decks
      <<"1", ",", "0", "0", "0", ",", "0", "0", "0", ",", "0", "0", "0",
        ",", "0", "0", "0", " ", "decks">>,        \* 1,000,000,000,000 decks
      <<"7", "x", "decks">> }                      \* no match

\* str(e) of the exceptions of the model; asyncio.TimeoutError has str(e) = ""
ErrorTexts == {"", "ClientConnectorError"}

Responses ==
    [kind : {"ok"}, html : Docs, text : {"None"}]
      \cup [kind : {"raise"}, html : {<<>>}, text : ErrorTexts]

\* Result(name, decks, error); edhrec_url is carried nowhere the claims look
Result(name, decks, error) == [name |-> name, decks |-> decks, error |-> error]

NoResult == Result(0, Wide(None), "None")

-----------------------------------------------------------------------------
(* heapq, on lists of tuples <<-val, seq, res>> *)

\* ties of the key decided by the later sequence number
TupleLT_LaterFirst(a, b) ==
    \/ WideLT(a[1], b[1])
    \/ a[1] = b[1] /\ a[2] > b[2]

\* Python's tuple comparison a < b; the third components (Results, which have
\* no order) are reached only when key and sequence number are both equal
TupleLT(a, b) ==
    \/ WideLT(a[1], b[1])
    \/ a[1] = b[1] /\ a[2] < b[2]

\* heapq._siftdown(heap, startpos, pos), with newitem = heap[pos] taken out
RECURSIVE siftdown_loop(_, _, _, _)
siftdown_loop(h, startpos, pos, newitem) ==
    IF pos > startpos
    THEN LET parentpos == (pos - 1) \div 2
             parent == h[parentpos + 1]
         IN  IF TupleLT(newitem, parent)
             THEN siftdown_loop([h EXCEPT ![pos + 1] = parent],
                                startpos, parentpos, newitem)
             ELSE [h EXCEPT ![pos + 1] = newitem]
    ELSE [h EXCEPT ![pos + 1] = newitem]

siftdown(h, startpos, pos) == siftdown_loop(h, startpos, pos, h[pos + 1])

\* heapq._siftup(heap, pos): bubble the smaller child up to a leaf, then
\* sift the new item down from there
RECURSIVE siftup_loop(_, _, _, _)
siftup_loop(h, startpos, pos, newitem) ==
    LET endpos == Len(h)
        leftpos == 2 * pos + 1
        rightpos == leftpos + 1
    IN  IF leftpos < endpos
        THEN LET childpos ==
                     IF rightpos < endpos
                        /\ ~TupleLT(h[leftpos + 1], h[rightpos + 1])
                     THEN rightpos ELSE leftpos
             IN  siftup_loop([h EXCEPT ![pos + 1] = h[childpos + 1]],
                             startpos, childpos, newitem)
        ELSE siftdown([h EXCEPT ![pos + 1] = newitem], startpos, pos)

siftup(h, pos) == siftup_loop(h, pos, pos, h[pos + 1])

\* heapq.heappush(heap, item): the heap after the push
heappush(h, item) == siftdown(Append(h, item), 0, Len(h))

\* heapq.heappop(heap): the heap after the pop (h is not empty)
heappop(h) ==
    LET lastelt == h[Len(h)]
        rest == SubSeq(h, 1, Len(h) - 1)
    IN  IF rest # <<>> THEN siftup([rest EXCEPT ![1] = lastelt], 0) ELSE rest

-----------------------------------------------------------------------------
(* The selector loop of main_async, lines 312-328 *)

\* isinstance(res.decks, int)
IsInt(decks) == decks # Wide(None)

\* the two sentinels the wrong way round
RankKey_SentinelsSwapped(res) ==
    IF IsInt(res.decks) THEN res.decks
    ELSE IF include_errors THEN big ELSE Wide(0)

\* the best-case sentinel whatever include_errors says
RankKey_AlwaysZero(res) == IF IsInt(res.decks) THEN res.decks ELSE Wide(0)

\* one sentinel whatever include_errors says
RankKey_AlwaysBig(res) == IF IsInt(res.decks) THEN res.decks ELSE big

\* line 314: val
RankKey(res) ==
    IF IsInt(res.decks) THEN res.decks
    ELSE IF ~include_errors THEN big ELSE Wide(0)

\* the test for a number left out
Skipped_NoTypeTest(res) == only_positive /\ ~WideLT(Wide(0), res.decks)

\* line 317: the result is passed over
Skipped(res) == only_positive /\ IsInt(res.decks) /\ ~WideLT(Wide(0), res.decks)

\* the pop one item early
Evict_OffByOne(h) == IF Len(h) >= bottom_k THEN heappop(h) ELSE h

\* lines 323-324: the conditional pop after the push
Evict(h) == IF Len(h) > bottom_k THEN heappop(h) ELSE h

\* the push of val instead of -val
Pushed_NotNegated(h, s, res) == heappush(h, <<RankKey(res), s, res>>)

\* line 321: the heap after the push
Pushed(h, s, res) == heappush(h, <<Neg(RankKey(res)), s, res>>)

\* lines 321-324 on the heap
Admit(h, s, res) == Evict(Pushed(h, s, res))

\* line 331: the sort key of a result
SortKey(r) == <<IF r.decks # Wide(None) THEN r.decks ELSE big, r.name>>

KeyLE(a, b) == WideLT(a[1], b[1]) \/ (a[1] = b[1] /\ a[2] <= b[2])

\* list.sort is stable: r goes after every element whose key is <= its own
RECURSIVE InsertSorted(_, _)
InsertSorted(sorted, r) ==
    IF sorted = <<>> THEN <<r>>
    ELSE IF KeyLE(SortKey(Head(sorted)), SortKey(r))
    THEN <<Head(sorted)>> \o InsertSorted(Tail(sorted), r)
    ELSE <<r>> \o sorted

RECURSIVE SortByKey(_)
SortByKey(list) ==
    IF list = <<>> THEN <<>>
    ELSE InsertSorted(SortByKey(SubSeq(list, 1, Len(list) - 1)), list[Len(list)])

\* no filter on the results shown
Shown_All(r) == TRUE

\* line 332: the results shown
Shown(r) == (r.decks # Wide(None)) \/ include_errors

RECURSIVE Filter(_)
Filter(list) ==
    IF list = <<>> THEN <<>>
    ELSE (IF Shown(Head(list)) THEN <<Head(list)>> ELSE <<>>) \o Filter(Tail(list))

\* line 348: the metric column of a console line
decks_str(r) == IF r.decks # Wide(None) THEN WideStr(r.decks) ELSE "?"

\* the annotation whenever errors are included, error or not
error_tail_Always(r) == IF include_errors THEN <<"ERROR", r.error>> ELSE <<>>

\* line 349: the annotation " - ERROR: <error>" as <<"ERROR", error>>, and ""
\* as <<>>; "r.error and ..." is false for None and for the empty string
error_tail(r) ==
    IF r.error # "None" /\ r.error # "" /\ include_errors
    THEN <<"ERROR", r.error>> ELSE <<>>

\* lines 347-350: the console lines, one per result shown (the url is left out)
ConsoleLines(shown) ==
    [i \in 1..Len(shown) |->
        [decks |-> decks_str(shown[i]), name |-> shown[i].name,
         tail |-> error_tail(shown[i])]]

-----------------------------------------------------------------------------
(* fetch_deck_count, lines 250-267, one task per commander *)

AllStarted == \A c \in commanders : pc[c] # "new"

\* an acquire that never blocks
Locked_Never == FALSE

\* asyncio.Semaphore.locked(): no free slot, or somebody is queued already
Locked == sem_value = 0 \/ sem_waiters # <<>>

\* line 256, first half: the task runs to sem.acquire(); it takes a slot and
\* goes on to session.get (line 258) or queues
Start(c) ==
    /\ pc[c] = "new"
    /\ IF ~Locked
       THEN /\ sem_value' = sem_value - 1
            /\ pc' = [pc EXCEPT ![c] = "request"]
            /\ attempts' = [attempts EXCEPT ![c] = @ + 1]
            /\ events' = [events EXCEPT ![c] = Append(@, "acquire")]
            /\ UNCHANGED sem_waiters
       ELSE /\ sem_waiters' = Append(sem_waiters, c)
            /\ pc' = [pc EXCEPT ![c] = "waiting"]
            /\ UNCHANGED <<sem_value, attempts, events>>
    /\ UNCHANGED <<woken, result, cfgVars, selVars, upstreamVars>>

\* sem.release() before the sleep instead of after it
RequestReturns_ReleasesFirst(c) ==
    /\ pc[c] = "request"
    /\ AllStarted
    /\ net[c].kind = "ok"
    /\ result' = [result EXCEPT
                    ![c] = Result(c, extract_deck_count(net[c].html), "None")]
    /\ pc' = [pc EXCEPT ![c] = "pacing"]
    /\ events' = [events EXCEPT ![c] = @ \o <<"response", "release">>]
    /\ sem_value' = sem_value + 1
    /\ UNCHANGED <<sem_waiters, woken, attempts, cfgVars, selVars, upstreamVars>>

\* lines 258-262: the response arrives; the return value is computed and the
\* finally clause starts its sleep (line 266)
RequestReturns(c) ==
    /\ pc[c] = "request"
    /\ AllStarted
    /\ net[c].kind = "ok"
    /\ result' = [result EXCEPT
                    ![c] = Result(c, extract_deck_count(net[c].html), "None")]
    /\ pc' = [pc EXCEPT ![c] = "pacing"]
    /\ events' = [events EXCEPT ![c] = Append(@, "response")]
    /\ UNCHANGED <<sem_value, sem_waiters, woken, attempts, cfgVars, selVars,
                   upstreamVars>>

\* no handler: the exception leaves the task and ends the loop of main_async
RequestRaises_Aborts(c) ==
    /\ pc[c] = "request"
    /\ AllStarted
    /\ net[c].kind = "raise"
    /\ pc' = [pc EXCEPT ![c] = "pacing"]
    /\ events' = [events EXCEPT ![c] = Append(@, "response")]
    /\ mainpc' = "aborted"
    /\ UNCHANGED <<result, sem_value, sem_waiters, woken, attempts, cfgVars,
                   upstreamVars, doneq, heap, seq, processed, admitted,
                   bottom, display>>

\* lines 263-264: session.get or r.text() raises; the handler builds the Result
\* and the finally clause starts its sleep (line 266)
RequestRaises(c) ==
    /\ pc[c] = "request"
    /\ AllStarted
    /\ net[c].kind = "raise"
    /\ result' = [result EXCEPT ![c] = Result(c, Wide(None), net[c].text)]
    /\ pc' = [pc EXCEPT ![c] = "pacing"]
    /\ events' = [events EXCEPT ![c] = Append(@, "response")]
    /\ UNCHANGED <<sem_value, sem_waiters, woken, attempts, cfgVars, selVars,
                   upstreamVars>>

\* a release that frees the slot and wakes nobody
PacingElapses_LostWakeup(c) ==
    /\ pc[c] = "pacing"
    /\ sem_value' = sem_value + 1
    /\ pc' = [pc EXCEPT ![c] = "done"]
    /\ events' = [events EXCEPT ![c] = @ \o <<"paced", "release">>]
    /\ doneq' = Append(doneq, c)
    /\ UNCHANGED <<sem_waiters, woken, attempts, result, cfgVars, upstreamVars,
                   heap, seq, processed, admitted, mainpc, bottom, display>>

\* lines 266-267: the sleep ends; sem.release() frees the slot, or completes
\* the future of the first waiter not yet woken, which keeps the slot for it
\* (Semaphore._wake_up_next); the task returns: its future completes and
\* as_completed queues it. The waiter itself runs later (AcquireResumes)
PacingElapses(c) ==
    LET waiting == { j \in 1..Len(sem_waiters) : sem_waiters[j] \notin woken }
    IN  /\ pc[c] = "pacing"
        /\ IF waiting # {}
           THEN LET j == CHOOSE j \in waiting : \A k \in waiting : j <= k
                IN  /\ woken' = woken \cup {sem_waiters[j]}
                    /\ UNCHANGED sem_value
           ELSE /\ sem_value' = sem_value + 1
                /\ UNCHANGED woken
        /\ pc' = [pc EXCEPT ![c] = "done"]
        /\ events' = [events EXCEPT ![c] = @ \o <<"paced", "release">>]
        /\ doneq' = Append(doneq, c)
        /\ UNCHANGED <<sem_waiters, attempts, result, cfgVars, upstreamVars,
                       heap, seq, processed, admitted, mainpc, bottom, display>>

\* lines 256-258, Semaphore.acquire after its await: the woken waiter leaves
\* the queue, passes a free slot on to the next waiter if there is one, and
\* goes on to session.get
AcquireResumes(c) ==
    LET rest == SelectSeq(sem_waiters, LAMBDA w : w # c)
        waiting == { j \in 1..Len(rest) : rest[j] \notin woken }
    IN  /\ pc[c] = "waiting"
        /\ c \in woken
        /\ sem_waiters' = rest
        /\ IF sem_value > 0 /\ waiting # {}
           THEN LET j == CHOOSE j \in waiting : \A k \in waiting : j <= k
                IN  /\ woken' = (woken \ {c}) \cup {rest[j]}
                    /\ sem_value' = sem_value - 1
           ELSE /\ woken' = woken \ {c}
                /\ UNCHANGED sem_value
        /\ pc' = [pc EXCEPT ![c] = "request"]
        /\ attempts' = [attempts EXCEPT ![c] = @ + 1]
        /\ events' = [events EXCEPT ![c] = Append(@, "acquire")]
        /\ UNCHANGED <<result, cfgVars, selVars, upstreamVars>>

-----------------------------------------------------------------------------
(* main_async, lines 312-332 *)

\* lines 312-326: one iteration of the loop over as_completed
Consume ==
    /\ mainpc = "loop"
    /\ doneq # <<>>
    /\ LET res == result[Head(doneq)]
       IN  IF Skipped(res)
           THEN UNCHANGED <<heap, seq, admitted>>
           ELSE /\ heap' = Admit(heap, seq, res)
                /\ seq' = seq + 1
                /\ admitted' = Append(admitted, res)
    /\ doneq' = Tail(doneq)
    /\ processed' = processed + 1
    /\ UNCHANGED <<mainpc, bottom, display, cfgVars, fetchVars, upstreamVars>>

\* lines 330-332: the loop is over when every task has been taken
Present ==
    /\ mainpc = "loop"
    /\ processed = Cardinality(commanders)
    /\ bottom' = SortByKey([i \in 1..Len(heap) |-> heap[i][3]])
    /\ display' = Filter(bottom')
    /\ mainpc' = "shown"
    /\ UNCHANGED <<doneq, heap, seq, processed, admitted, cfgVars, fetchVars,
                   upstreamVars>>

-----------------------------------------------------------------------------
(* The metric stage and the selector: specification Spec *)

CollapseIdle ==
    /\ cards = <<>>
    /\ ci = 1
    /\ by_oracle = <<>>
    /\ cpc = "returned"
    /\ pool = <<>>

\* fetch_all_scryfall is not running
CatalogIdle ==
    /\ site = <<>>
    /\ url = "None"
    /\ params = "None"
    /\ fetched = <<>>
    /\ requests = <<>>
    /\ fapc = "idle"

\* apply_filters_async is not running
FilterIdle ==
    /\ fcfg = <<>>
    /\ fpool = <<>>
    /\ prelim = <<>>
    /\ out = <<>>
    /\ fpc = "idle"
    /\ vsem_value = 0
    /\ vsem_waiters = <<>>
    /\ vpc = <<>>
    /\ vuri = <<>>
    /\ kept = <<>>
    /\ vrequests = <<>>
    /\ vdoneq = <<>>

UpstreamIdle == CatalogIdle /\ CollapseIdle /\ FilterIdle

\* the state at line 312, for given arguments and a given metric source
StageInit(n, k, conc, ie, op, source) ==
    /\ commanders = 1..n
    /\ bottom_k = k
    /\ concurrency = conc
    /\ include_errors = ie
    /\ only_positive = op
    /\ net = source
    /\ pc = [c \in 1..n |-> "new"]
    /\ sem_value = conc
    /\ sem_waiters = <<>>
    /\ woken = {}
    /\ result = [c \in 1..n |-> NoResult]
    /\ attempts = [c \in 1..n |-> 0]
    /\ events = [c \in 1..n |-> <<>>]
    /\ doneq = <<>>
    /\ heap = <<>>
    /\ seq = 0
    /\ processed = 0
    /\ admitted = <<>>
    /\ mainpc = "loop"
    /\ bottom = <<>>
    /\ display = <<>>

Init ==
    /\ \E n \in 0..MaxN, k \in 0..MaxK, conc \in 1..MaxConc,
          ie \in BOOLEAN, op \in BOOLEAN :
         \E source \in [1..n -> Responses] :
            StageInit(n, k, conc, ie, op, source)
    /\ UpstreamIdle

Next ==
    \/ \E c \in commanders : Start(c)
    \/ \E c \in commanders : RequestReturns(c)
    \/ \E c \in commanders : RequestRaises(c)
    \/ \E c \in commanders : PacingElapses(c)
    \/ \E c \in commanders : AcquireResumes(c)
    \/ Consume
    \/ Present

Spec == Init /\ [][Next]_vars

\* The event loop runs every callback that is ready (a task at its acquire, a
\* sleep that has elapsed, the loop of main_async with a result queued), and
\* every request returns or fails in the end.
Fairness ==
    /\ WF_vars(\E c \in commanders : Start(c))
    /\ WF_vars(\E c \in commanders : RequestReturns(c))
    /\ WF_vars(\E c \in commanders : RequestRaises(c))
    /\ WF_vars(\E c \in commanders : PacingElapses(c))
    /\ WF_vars(\E c \in commanders : AcquireResumes(c))
    /\ WF_vars(Consume)
    /\ WF_vars(Present)

\* Termination does not depend on the selection options or on what a page
\* says, so the fair specification fixes --bottom-k 1 with both flags off and
\* varies the number of commanders, the concurrency and, per request, whether
\* it returns a page with a count, a page without one, or raises.
LiveResponses ==
    { r \in Responses :
        \/ r.kind = "raise" /\ r.text = ""
        \/ r.kind = "ok" /\ r.html \in { <<"0", " ", "decks">>,
                                          <<"7", "x", "decks">> } }

InitLive ==
    /\ \E n \in 0..MaxN, conc \in 1..MaxConc :
         \E source \in [1..n -> LiveResponses] :
            StageInit(n, 1, conc, FALSE, FALSE, source)
    /\ UpstreamIdle

SpecLive == InitLive /\ [][Next]_vars /\ Fairness

-----------------------------------------------------------------------------
(* The scenario of five results 50, error, 10, 5, 5 with K = 3 *)

Doc50 == <<"5", "0", " ", "decks">>
Doc10 == <<"x", "1", "0", " ", "decks">>
Doc5 == <<"x", "5", " ", " ", "decks", "x">>

OkPage(html) == [kind |-> "ok", html |-> html, text |-> "None"]

Failure(text) == [kind |-> "raise", html |-> <<>>, text |-> text]

ScenarioNet ==
    <<OkPage(Doc50), Failure("ClientConnectorError"), OkPage(Doc10),
      OkPage(Doc5), OkPage(Doc5)>>

InitScenario ==
    /\ \E conc \in 1..MaxConc, ie \in BOOLEAN :
          StageInit(Len(ScenarioNet), 3, conc, ie, FALSE, ScenarioNet)
    /\ UpstreamIdle

SpecScenario == InitScenario /\ [][Next]_vars

-----------------------------------------------------------------------------
(* collapse_by_oracle, lines 74-97 *)

\* "w" in tl, on a type line given as its sequence of words
InLine(w, tl) == \E i \in 1..Len(tl) : tl[i] = w

\* lines 74-76; a card without type_line has the type line ""
is_commander_face(card) ==
    InLine("Legendary", card.type_line) /\ InLine("Creature", card.type_line)

\* Python truth of an Optional[str]
Truthy(str) == str # "None" /\ str # ""

\* lines 78-80
commander_key(card) == IF Truthy(card.oracle_id) THEN card.oracle_id ELSE card.id

\* k in by_oracle
HasKey(d, k) == \E i \in 1..Len(d) : d[i][1] = k

\* by_oracle[k] = c without the test: the last card of a key wins
SetIfAbsent_LastWins(d, k, c) ==
    IF HasKey(d, k)
    THEN [i \in 1..Len(d) |-> IF d[i][1] = k THEN <<k, c>> ELSE d[i]]
    ELSE Append(d, <<k, c>>)

\* lines 95-96: the dict after "if k not in by_oracle: by_oracle[k] = c"; a
\* dict keeps its keys in insertion order
SetIfAbsent(d, k, c) == IF HasKey(d, k) THEN d ELSE Append(d, <<k, c>>)

\* lines 92-96: the dict after the loop body on card c
CollapseBody(d, c) ==
    IF ~is_commander_face(c) THEN d ELSE SetIfAbsent(d, commander_key(c), c)

\* line 97: list(by_oracle.values())
Values(d) == [i \in 1..Len(d) |-> d[i][2]]

\* lines 91-96: one iteration of the for loop
CollapseStep ==
    /\ cpc = "loop"
    /\ ci <= Len(cards)
    /\ by_oracle' = CollapseBody(by_oracle, cards[ci])
    /\ ci' = ci + 1
    /\ UNCHANGED <<cards, cpc, pool, metricVars, catalogVars, filterVars>>

\* line 97: the loop is over
CollapseReturn ==
    /\ cpc = "loop"
    /\ ci > Len(cards)
    /\ pool' = Values(by_oracle)
    /\ cpc' = "returned"
    /\ UNCHANGED <<cards, ci, by_oracle, metricVars, catalogVars, filterVars>>

\* the catalogue entries of the model: oracle_id absent, empty or set; the id
\* of a printing may read like another card's oracle_id
TypeLines ==
    { <<"Legendary", "Creature">>, <<"Legendary", "Artifact">>, <<>> }

Cards == [type_line : TypeLines, oracle_id : {"None", "", "o1"}, id : {"p1", "o1"}]

\* main_async before line 302: no task, no heap
StageIdle ==
    /\ commanders = {}
    /\ bottom_k = 0
    /\ concurrency = 1
    /\ include_errors = FALSE
    /\ only_positive = FALSE
    /\ net = <<>>
    /\ pc = <<>>
    /\ sem_value = 1
    /\ sem_waiters = <<>>
    /\ woken = {}
    /\ result = <<>>
    /\ attempts = <<>>
    /\ events = <<>>
    /\ doneq = <<>>
    /\ heap = <<>>
    /\ seq = 0
    /\ processed = 0
    /\ admitted = <<>>
    /\ mainpc = "before"
    /\ bottom = <<>>
    /\ display = <<>>

InitCollapse ==
    /\ \E n \in 0..MaxCards : cards \in [1..n -> Cards]
    /\ ci = 1
    /\ by_oracle = <<>>
    /\ cpc = "loop"
    /\ pool = <<>>
    /\ StageIdle
    /\ CatalogIdle
    /\ FilterIdle

NextCollapse == CollapseStep \/ CollapseReturn

SpecCollapse == InitCollapse /\ [][NextCollapse]_vars

-----------------------------------------------------------------------------
(* fetch_all_scryfall, lines 58-72: specification SpecCatalog *)

\* line 20; a url is a number, 0 the search endpoint and 1..MaxPages the
\* continuation references the source hands out
SCRYFALL_API == 0

\* line 60: the dict of the first request
QueryParams == "q=SCRYFALL_QUERY&unique=cards&order=name&dir=asc"

\* What the source does with a request of a url. fail: "none", or the step of
\* lines 63-65 that raises (session.get, raise_for_status, r.json); data: the
\* entries of the page; has_more: "True", "False" or "None" (key absent);
\* next_page: a url, or None (key absent, line 69 raises KeyError)
PageResponse(fail, data, has_more, next_page) ==
    [fail |-> fail, data |-> data, has_more |-> has_more, next_page |-> next_page]

\* the two entries a page of url u can carry (distinct across pages)
PageData(u) == { <<>>, <<2 * u + 1, 2 * u + 2>> }

\* The answers of the model to a request of url u. A continuation reference
\* points further down the result list, to any later page.
PageResponses(u) ==
    { PageResponse(f, <<>>, "None", None) :
        f \in {"transport", "status", "parse"} }
      \cup { PageResponse("none", d, h, None) :
               d \in PageData(u), h \in {"True", "False", "None"} }
      \cup { PageResponse("none", d, "True", n) :
               d \in PageData(u), n \in (u + 1)..MaxPages }

\* the sources with urls 0..u: the answer to url v is the entry v + 1
RECURSIVE SitesUpTo(_)
SitesUpTo(u) ==
    IF u < 0 THEN { <<>> }
    ELSE { Append(s, r) : s \in SitesUpTo(u - 1), r \in PageResponses(u) }

Sites == SitesUpTo(MaxPages)

\* the answer of the source to a request of url u
Answer(u) == site[u + 1]

\* lines 59-63: the call up to its first suspension, the first request sent
CatalogCalled(source) ==
    /\ site = source
    /\ url = SCRYFALL_API
    /\ params = QueryParams
    /\ fetched = <<>>
    /\ requests = << <<SCRYFALL_API, QueryParams>> >>
    /\ fapc = "request"

\* line 70 left out: the follow-up request re-attaches the query parameters
PageReturns_KeepsParams ==
    LET data == Answer(url)
    IN  /\ fapc = "request"
        /\ data.fail = "none"
        /\ fetched' = fetched \o data.data
        /\ IF data.has_more # "True"
           THEN fapc' = "returned" /\ UNCHANGED <<url, params>>
           ELSE IF data.next_page = None
           THEN fapc' = "raised" /\ UNCHANGED <<url, params>>
           ELSE /\ url' = data.next_page
                /\ UNCHANGED params
                /\ fapc' = "sleep"
        /\ UNCHANGED <<site, requests, metricVars, collapseVars, filterVars>>

\* lines 63-71: the response arrives and parses; extend, then stop, or follow
\* the continuation after the pause
PageReturns ==
    LET data == Answer(url)
    IN  /\ fapc = "request"
        /\ data.fail = "none"
        /\ fetched' = fetched \o data.data
        /\ IF data.has_more # "True"
           THEN fapc' = "returned" /\ UNCHANGED <<url, params>>
           ELSE IF data.next_page = None
           THEN fapc' = "raised" /\ UNCHANGED <<url, params>>
           ELSE /\ url' = data.next_page
                /\ params' = "None"
                /\ fapc' = "sleep"
        /\ UNCHANGED <<site, requests, metricVars, collapseVars, filterVars>>

\* lines 63-65: session.get, raise_for_status or r.json raises; nothing in
\* fetch_all_scryfall catches it
PageRaises ==
    /\ fapc = "request"
    /\ Answer(url).fail # "none"
    /\ fapc' = "raised"
    /\ UNCHANGED <<site, url, params, fetched, requests, metricVars,
                   collapseVars, filterVars>>

\* lines 71, 62-63: the pause ends and the next request goes out
PageSleepEnds ==
    /\ fapc = "sleep"
    /\ requests' = Append(requests, <<url, params>>)
    /\ fapc' = "request"
    /\ UNCHANGED <<site, url, params, fetched, metricVars, collapseVars,
                   filterVars>>

InitCatalog ==
    /\ \E source \in Sites : CatalogCalled(source)
    /\ CollapseIdle
    /\ FilterIdle
    /\ StageIdle

NextCatalog == PageReturns \/ PageRaises \/ PageSleepEnds

SpecCatalog == InitCatalog /\ [][NextCatalog]_vars

-----------------------------------------------------------------------------
(* Filter predicates, lines 103-156 *)

\* Texts. An oracle text, a type line and a set name are sequences of words;
\* None and "" are both the empty sequence (every use is `x or ""`), and " "
\* is a run of white space. A marker is a sequence of lower-case words, and
\* `m in text` is the search of m as a run of consecutive words. The character
\* "~" in a word stands for the typographic apostrophe U+2019.

\* str.lower() on the words of the model
Lower(w) ==
    CASE w = "Partner" -> "partner"
      [] w = "Friends" -> "friends"
      [] w = "Choose" -> "choose"
      [] w = "Background" -> "background"
      [] w = "Companion" -> "companion"
      [] w = "Doctor's" -> "doctor's"
      [] w = "Doctor~s" -> "doctor~s"
      [] w = "Doctor" -> "doctor"
      [] w = "Who" -> "who"
      [] w = "Time" -> "time"
      [] w = "Lord" -> "lord"
      [] w = "Portal" -> "portal"
      [] w = "Three" -> "three"
      [] w = "Kingdoms" -> "kingdoms"
      [] w = "PTK" -> "ptk"
      [] OTHER -> w

lower(text) == [i \in 1..Len(text) |-> Lower(text[i])]

\* m in text
Contains(m, text) ==
    \E p \in 0..(Len(text) - Len(m)) :
        \A j \in 1..Len(m) : text[p + j] = m[j]

\* str.strip()
RECURSIVE lstrip(_)
lstrip(text) ==
    IF text # <<>> /\ Head(text) = " " THEN lstrip(Tail(text)) ELSE text

RECURSIVE rstrip(_)
rstrip(text) ==
    IF text # <<>> /\ text[Len(text)] = " "
    THEN rstrip(SubSeq(text, 1, Len(text) - 1)) ELSE text

strip(text) == rstrip(lstrip(text))

\* lines 33-36
PARTNER_MARKERS == { <<"partner", "with">>, <<"partner">>, <<"friends", "forever">> }
BACKGROUND_MARKER == <<"choose", "a", "background">>
COMPANION_MARKER == <<"companion">>
DOCTORS_COMPANION_MARKERS == { <<"doctor's", "companion">>, <<"doctor~s", "companion">> }

\* lines 103-105
is_funny_set(card) == card.set_type = "funny"

\* lines 107-109
has_partner(card) ==
    \E m \in PARTNER_MARKERS : Contains(m, lower(card.oracle_text))

\* lines 111-113
has_background_ability(card) == Contains(BACKGROUND_MARKER, lower(card.oracle_text))

\* lines 115-117
has_companion(card) == Contains(COMPANION_MARKER, lower(card.oracle_text))

\* lines 119-121
has_doctors_companion(card) ==
    \E m \in DOCTORS_COMPANION_MARKERS : Contains(m, lower(card.oracle_text))

\* lines 123-126
is_vanilla(card) == Len(strip(card.oracle_text)) = 0

\* released_at, as the code reads it: absent or empty ("none"), not a date of
\* the form %Y-%m-%d ("bad"), or a date, given by its age in days at the time
\* of the run (negative for a date to come)
Date(age) == [kind |-> "date", age |-> age]
NoDate == [kind |-> "none", age |-> 0]
BadDate == [kind |-> "bad", age |-> 0]

\* lines 128-142
is_recent(card, days) ==
    IF days <= 0 THEN FALSE
    ELSE IF card.released_at.kind = "none" THEN FALSE
    ELSE IF card.released_at.kind = "bad" THEN FALSE
    ELSE card.released_at.age <= days

\* lines 144-151
is_doctor(card) ==
    /\ Contains(<<"doctor", "who">>, lower(card.set_name))
    /\ Contains(<<"time", "lord">>, lower(card.type_line))

\* lines 153-157; a set code is one word, "None" when absent
looks_like_ptk_fast(card) ==
    LET set_code == IF card.set = "None" THEN "" ELSE Lower(card.set)
    IN  \/ set_code = "ptk"
        \/ Contains(<<"portal", "three", "kingdoms">>, lower(card.set_name))

-----------------------------------------------------------------------------
(* apply_filters_async, lines 183-238, and is_ptk_strict, lines 159-177 *)

\* lines 202-209: the tests of the first pass, in the order of the code
Skip(c, cfg) ==
    \/ cfg.exclude_funny /\ is_funny_set(c)
    \/ cfg.exclude_partner /\ has_partner(c)
    \/ cfg.exclude_background /\ has_background_ability(c)
    \/ cfg.exclude_companion /\ has_companion(c)
    \/ cfg.exclude_doctors_companion /\ has_doctors_companion(c)
    \/ cfg.exclude_vanilla /\ is_vanilla(c)
    \/ cfg.exclude_recent /\ is_recent(c, cfg.recent_days)
    \/ cfg.exclude_doctors /\ is_doctor(c)

\* the first pass keeps every item: nothing is skipped
FirstPass_KeepsAll(list, cfg, n) == [i \in 1..n |-> i]

\* lines 200-210: prelim after the first n items of the pool, as positions
RECURSIVE FirstPass(_, _, _)
FirstPass(list, cfg, n) ==
    IF n = 0 THEN <<>>
    ELSE LET p == FirstPass(list, cfg, n - 1)
         IN  IF Skip(list[n], cfg) THEN p ELSE Append(p, n)

\* line 218: [c for c in prelim if not looks_like_ptk_fast(c)]
RECURSIVE FastPass(_, _)
FastPass(list, p) ==
    IF p = <<>> THEN <<>>
    ELSE IF looks_like_ptk_fast(list[Head(p)])
         THEN FastPass(list, Tail(p))
         ELSE <<Head(p)>> \o FastPass(list, Tail(p))

\* The verification source: what it answers to a request of a printings uri.
\* fail: session.get, raise_for_status or r.json raises; sets: the set codes
\* of the printings of the page ("None" for a printing without one);
\* next_page: the uri of the next page, "None" at the end
PrintsPage(fail, sets, next_page) ==
    [fail |-> fail, sets |-> sets, next_page |-> next_page]

Prints(uri) ==
    CASE uri = "clean"         -> PrintsPage(FALSE, <<"cmd", "None">>, "None")
      [] uri = "reprint"       -> PrintsPage(FALSE, <<"cmd">>, "reprint2")
      [] uri = "reprint2"      -> PrintsPage(FALSE, <<"c13", "PTK">>, "None")
      [] uri = "late_fail"     -> PrintsPage(FALSE, <<"cmd">>, "fail")
      [] uri = "ptk_then_fail" -> PrintsPage(FALSE, <<"ptk">>, "fail")
      [] OTHER                 -> PrintsPage(TRUE, <<>>, "None")

\* lines 169-171: a printing of the page has the set code ptk
HasPtkPrinting(data) ==
    \E j \in 1..Len(data.sets) :
        (IF data.sets[j] = "None" THEN "" ELSE Lower(data.sets[j])) = "ptk"

\* the state of the semaphore and of the tasks check(c), as one record
VNow ==
    [value |-> vsem_value, waiters |-> vsem_waiters, pc |-> vpc, uri |-> vuri,
     kept |-> kept, reqs |-> vrequests, doneq |-> vdoneq]

VSet(s) ==
    /\ vsem_value' = s.value
    /\ vsem_waiters' = s.waiters
    /\ vpc' = s.pc
    /\ vuri' = s.uri
    /\ kept' = s.kept
    /\ vrequests' = s.reqs
    /\ vdoneq' = s.doneq

\* Semaphore._wake_up_next: the first waiter whose future is not done gets the
\* slot; it stays in the queue until it resumes
WakeUpNext(s) ==
    LET waiting == { j \in 1..Len(s.waiters) : s.pc[s.waiters[j]] = "waiting" }
    IN  IF waiting = {} THEN s
        ELSE LET j == CHOOSE j \in waiting : \A k \in waiting : j <= k
             IN  [s EXCEPT !.value = @ - 1, !.pc[s.waiters[j]] = "woken"]

\* Semaphore.release
Release(s) == WakeUpNext([s EXCEPT !.value = @ + 1])

\* `return None if keep else c`: the matches are kept
Finish_KeepsMatches(s, i, verdict) ==
    Release([s EXCEPT !.kept[i] = IF verdict THEN "c" ELSE "None",
                      !.pc[i] = "done",
                      !.doneq = Append(@, i)])

\* lines 228-231: is_ptk_strict gave `verdict`; the task returns c or None,
\* releasing the slot on the way out
Finish(s, i, verdict) ==
    Release([s EXCEPT !.kept[i] = IF verdict THEN "None" ELSE "c",
                      !.pc[i] = "done",
                      !.doneq = Append(@, i)])

\* lines 161-166: is_ptk_strict up to its first suspension
Enter(s, i) ==
    LET uri == fpool[i].prints_search_uri
    IN  IF ~Truthy(uri)
        THEN Finish(s, i, looks_like_ptk_fast(fpool[i]))
        ELSE [s EXCEPT !.uri[i] = uri, !.pc[i] = "request",
                       !.reqs = Append(@, <<i, uri>>)]

\* the elements of a list
Range(list) == { list[j] : j \in 1..Len(list) }

\* list.remove(x), for an x that occurs once
Remove(list, x) == SelectSeq(list, LAMBDA y : y # x)

\* max(2, concurrency), line 223
Slots(cfg) == IF cfg.concurrency > 2 THEN cfg.concurrency ELSE 2

\* lines 200-233: the call up to its first suspension. Without the PTK rule or
\* in fast mode it returns at once; in strict mode it creates the semaphore
\* and one task per item of prelim, and with no task the loop of line 234 is
\* over at once
FilterCall ==
    LET p == FirstPass(fpool, fcfg, Len(fpool))
        strict == fcfg.exclude_ptk /\ fcfg.ptk_strict
    IN  /\ fpc = "called"
        /\ prelim' = p
        /\ out' = IF ~fcfg.exclude_ptk THEN p
                  ELSE IF ~fcfg.ptk_strict THEN FastPass(fpool, p)
                  ELSE <<>>
        /\ fpc' = IF strict /\ p # <<>> THEN "verify" ELSE "returned"
        /\ vsem_value' = IF strict THEN Slots(fcfg) ELSE vsem_value
        /\ vpc' = IF strict THEN [i \in Range(p) |-> "new"] ELSE vpc
        /\ vuri' = IF strict THEN [i \in Range(p) |-> "None"] ELSE vuri
        /\ kept' = IF strict THEN [i \in Range(p) |-> "pending"] ELSE kept
        /\ UNCHANGED <<fcfg, fpool, vsem_waiters, vrequests, vdoneq,
                       metricVars, catalogVars, collapseVars>>

\* as_completed has started every task
VAllStarted == \A i \in DOMAIN vpc : vpc[i] # "new"

\* a semaphore that never reports itself locked
VLocked_Never == FALSE

\* Semaphore.locked(): no slot left, or somebody is queued
VLocked == vsem_value = 0 \/ vsem_waiters # <<>>

\* lines 225-226 (and 161-166): the task starts; it takes a slot and runs
\* is_ptk_strict up to its first request, or queues for a slot
VStart(i) ==
    /\ fpc = "verify"
    /\ vpc[i] = "new"
    /\ IF VLocked
       THEN VSet([VNow EXCEPT !.waiters = Append(@, i), !.pc[i] = "waiting"])
       ELSE VSet(Enter([VNow EXCEPT !.value = @ - 1], i))
    /\ UNCHANGED <<fcfg, fpool, prelim, out, fpc, metricVars, catalogVars,
                   collapseVars>>

\* line 226, Semaphore.acquire after its await: the woken waiter leaves the
\* queue, passes a free slot on if there is one, and runs is_ptk_strict
VResume(i) ==
    /\ fpc = "verify"
    /\ VAllStarted
    /\ vpc[i] = "woken"
    /\ LET s1 == [VNow EXCEPT !.waiters = Remove(@, i)]
           s2 == IF s1.value > 0 THEN WakeUpNext(s1) ELSE s1
       IN  VSet(Enter(s2, i))
    /\ UNCHANGED <<fcfg, fpool, prelim, out, fpc, metricVars, catalogVars,
                   collapseVars>>

\* lines 166-173: the page arrives; a ptk printing settles it, otherwise the
\* task goes on to the next page after a pause
VReturns(i) ==
    /\ fpc = "verify"
    /\ VAllStarted
    /\ vpc[i] = "request"
    /\ ~Prints(vuri[i]).fail
    /\ LET data == Prints(vuri[i])
       IN  IF HasPtkPrinting(data)
           THEN VSet(Finish(VNow, i, TRUE))
           ELSE VSet([VNow EXCEPT !.uri[i] = data.next_page, !.pc[i] = "sleep"])
    /\ UNCHANGED <<fcfg, fpool, prelim, out, fpc, metricVars, catalogVars,
                   collapseVars>>

\* no handler in is_ptk_strict: the exception leaves check, which releases
\* its slot, and then apply_filters_async through `await fut`
VRaises_Propagates(i) ==
    /\ fpc = "verify"
    /\ VAllStarted
    /\ vpc[i] = "request"
    /\ Prints(vuri[i]).fail
    /\ VSet(Release([VNow EXCEPT !.pc[i] = "done"]))
    /\ fpc' = "raised"
    /\ UNCHANGED <<fcfg, fpool, prelim, out, metricVars, catalogVars,
                   collapseVars>>

\* lines 166-168, 174-176: the request raises; the heuristic decides
VRaises(i) ==
    /\ fpc = "verify"
    /\ VAllStarted
    /\ vpc[i] = "request"
    /\ Prints(vuri[i]).fail
    /\ VSet(Finish(VNow, i, looks_like_ptk_fast(fpool[i])))
    /\ UNCHANGED <<fcfg, fpool, prelim, out, fpc, metricVars, catalogVars,
                   collapseVars>>

\* lines 173, 165-166, 177: the pause ends; the next page is requested, or
\* there is none and no printing was ptk
VSleepEnds(i) ==
    /\ fpc = "verify"
    /\ VAllStarted
    /\ vpc[i] = "sleep"
    /\ IF Truthy(vuri[i])
       THEN VSet([VNow EXCEPT !.pc[i] = "request",
                              !.reqs = Append(@, <<i, vuri[i]>>)])
       ELSE VSet(Finish(VNow, i, FALSE))
    /\ UNCHANGED <<fcfg, fpool, prelim, out, fpc, metricVars, catalogVars,
                   collapseVars>>

\* lines 234-238: the loop takes the next completed task and keeps its item
\* unless the task returned None; after the last task it returns out
VConsume ==
    /\ fpc = "verify"
    /\ VAllStarted
    /\ vdoneq # <<>>
    /\ LET i == Head(vdoneq)
       IN  out' = IF kept[i] = "c" THEN Append(out, i) ELSE out
    /\ vdoneq' = Tail(vdoneq)
    /\ fpc' = IF Tail(vdoneq) = <<>> /\ \A i \in DOMAIN vpc : vpc[i] = "done"
              THEN "returned" ELSE "verify"
    /\ UNCHANGED <<fcfg, fpool, prelim, vsem_value, vsem_waiters, vpc, vuri,
                   kept, vrequests, metricVars, catalogVars, collapseVars>>

\* The keyword arguments of the model: every rule on, or all but one (`off`);
\* recent_days 90 (the default) or 0; fast or strict; the concurrency
Config(off, days, strict, conc) ==
    [exclude_funny |-> off # "funny",
     exclude_partner |-> off # "partner",
     exclude_background |-> off # "background",
     exclude_companion |-> off # "companion",
     exclude_doctors_companion |-> off # "doctors_companion",
     exclude_vanilla |-> off # "vanilla",
     exclude_recent |-> off # "recent",
     recent_days |-> days,
     exclude_ptk |-> off # "ptk",
     ptk_strict |-> strict,
     exclude_doctors |-> off # "doctors",
     concurrency |-> conc]

Rules ==
    {"funny", "partner", "background", "companion", "doctors_companion",
     "vanilla", "recent", "ptk", "doctors"}

\* The items of the model: an ordinary commander and its variations
BaseCard ==
    [set_type |-> "expansion", oracle_text |-> <<"Flying">>,
     released_at |-> Date(1000), type_line |-> <<"Legendary", "Creature">>,
     set_name |-> <<"Commander">>, set |-> "cmd",
     prints_search_uri |-> "clean"]

PtkCard == [BaseCard EXCEPT !.set = "PTK"]

SyncCards ==
    { BaseCard }
      \cup { [BaseCard EXCEPT !.set_type = t] : t \in {"funny", "None"} }
      \cup { [BaseCard EXCEPT !.oracle_text = t] :
               t \in { <<"Partner", "with", "Pir">>, <<"Flying", "Partner">>,
                       <<"Friends", "forever">>, <<"forever", "Friends">>,
                       <<"Choose", "a", "Background">>, <<"a", "Background">>,
                       <<"Companion">>, <<"Doctor's", "companion">>,
                       <<"Doctor~s", "companion">>, <<>>, <<" ">>,
                       <<" ", "Flying", " ">> } }
      \cup { [BaseCard EXCEPT !.released_at = d] :
               d \in { Date(90), Date(91), Date(0 - 5), NoDate, BadDate } }
      \cup { [BaseCard EXCEPT !.set_name = <<"Doctor", "Who">>, !.type_line = tl] :
               tl \in { <<"Legendary", "Creature", "Time", "Lord", "Doctor">>,
                        <<"Legendary", "Creature", "Human">> } }
      \cup { [BaseCard EXCEPT !.set = "ptk"],
             [BaseCard EXCEPT !.set = "None",
                              !.set_name = <<"Portal", "Three", "Kingdoms">>] }
      \cup { [c EXCEPT !.prints_search_uri = u] :
               c \in {BaseCard, PtkCard},
               u \in {"None", "", "clean", "reprint", "fail", "late_fail",
                      "ptk_then_fail"} }

\* the items of the pools that exercise the semaphore: a reprint found on the
\* second page, a PTK card whose request fails, a failure after a first page,
\* a card without a printings uri, and a card the first pass drops
VerifCards ==
    << [BaseCard EXCEPT !.prints_search_uri = "reprint"],
       [PtkCard EXCEPT !.prints_search_uri = "fail"],
       [BaseCard EXCEPT !.prints_search_uri = "late_fail"],
       [BaseCard EXCEPT !.prints_search_uri = "None"],
       [BaseCard EXCEPT !.set_type = "funny"] >>

\* one more item than the concurrency can ask for slots
MaxPool == MaxConc + 1

\* apply_filters_async is called: a pool of one item under any configuration,
\* or a longer pool in strict mode with every rule on. The tasks of a pool
\* start in any order, so the longer pools list their items in one order only.
InitFilter ==
    /\ \/ \E c \in SyncCards, off \in Rules \cup {"none"}, days \in {0, 90},
             strict \in BOOLEAN, conc \in 1..MaxConc :
            /\ fpool = <<c>>
            /\ fcfg = Config(off, days, strict, conc)
       \/ \E n \in 0..MaxPool, conc \in 1..MaxConc :
            \E ix \in [1..n -> 1..Len(VerifCards)] :
               /\ \A j \in 1..(n - 1) : ix[j] <= ix[j + 1]
               /\ fpool = [j \in 1..n |-> VerifCards[ix[j]]]
               /\ fcfg = Config("none", 90, TRUE, conc)
    /\ prelim = <<>>
    /\ out = <<>>
    /\ fpc = "called"
    /\ vsem_value = 0
    /\ vsem_waiters = <<>>
    /\ vpc = <<>>
    /\ vuri = <<>>
    /\ kept = <<>>
    /\ vrequests = <<>>
    /\ vdoneq = <<>>
    /\ CatalogIdle
    /\ CollapseIdle
    /\ StageIdle

NextFilter ==
    \/ FilterCall
    \/ \E i \in DOMAIN vpc : VStart(i)
    \/ \E i \in DOMAIN vpc : VResume(i)
    \/ \E i \in DOMAIN vpc : VReturns(i)
    \/ \E i \in DOMAIN vpc : VRaises(i)
    \/ \E i \in DOMAIN vpc : VSleepEnds(i)
    \/ VConsume

SpecFilter == InitFilter /\ [][NextFilter]_vars

-----------------------------------------------------------------------------
(* main_async, lines 273-350: the stages in sequence, specification SpecPipeline *)

\* a catalogue entry with the fields every stage reads
Entry(name, oracle_id, id, uri) ==
    [name |-> name, oracle_id |-> oracle_id, id |-> id,
     set_type |-> "expansion", oracle_text |-> <<"Flying">>,
     released_at |-> Date(1000), type_line |-> <<"Legendary", "Creature">>,
     set_name |-> <<"Commander">>, set |-> "cmd", prints_search_uri |-> uri]

\* The catalogue of the model, in name order: a commander with a PTK reprint
\* and a second printing of it, an artifact, a commander whose verification
\* fails late, a PTK commander whose verification fails, a funny commander
FirstPageData ==
    << Entry(1, "o1", "p1", "reprint"),
       Entry(1, "o1", "p2", "reprint"),
       [Entry(2, "o2", "p3", "clean") EXCEPT !.type_line = <<"Legendary", "Artifact">>] >>

SecondPageData ==
    << Entry(3, "o3", "p4", "late_fail"),
       [Entry(4, "o4", "p5", "fail") EXCEPT !.set = "PTK"],
       [Entry(5, "o5", "p6", "clean") EXCEPT !.set_type = "funny"] >>

\* the sources of the model: each of the two pages arrives or fails in one of
\* the three ways, and the first page ends the list, points to the second or
\* announces a further page without naming it
PipelineSites ==
    LET Fails == { PageResponse(f, <<>>, "None", None) :
                     f \in {"transport", "status", "parse"} }
        First == { PageResponse("none", FirstPageData, "False", None),
                   PageResponse("none", FirstPageData, "True", None),
                   PageResponse("none", FirstPageData, "True", 1) }
        Second == { PageResponse("none", SecondPageData, "False", None) }
    IN  { <<a, b>> : a \in Fails \cup First, b \in Fails \cup Second }

\* the metric source of the model, by commander name
PipelineNet ==
    [c \in 1..5 |->
        IF c = 3 THEN [kind |-> "raise", html |-> <<>>, text |-> ""]
        ELSE [kind |-> "ok", html |-> <<"0", " ", "decks">>, text |-> "None"]]

\* lines 273-276: the arguments are parsed and fetch_all_scryfall has sent its
\* first request; nothing else has run
InitPipeline ==
    /\ \E source \in PipelineSites : CatalogCalled(source)
    /\ CollapseIdle
    /\ \E strict \in BOOLEAN, conc \in 1..MaxConc, k \in 1..MaxK, ie \in BOOLEAN :
          /\ bottom_k = k
          /\ concurrency = conc
          /\ include_errors = ie
          /\ fcfg = Config("none", 90, strict,
                           IF conc \div 2 > 2 THEN conc \div 2 ELSE 2)
    /\ only_positive = FALSE
    /\ commanders = {}
    /\ net = PipelineNet
    /\ pc = <<>>
    /\ sem_value = 0
    /\ sem_waiters = <<>>
    /\ woken = {}
    /\ result = <<>>
    /\ attempts = <<>>
    /\ events = <<>>
    /\ doneq = <<>>
    /\ heap = <<>>
    /\ seq = 0
    /\ processed = 0
    /\ admitted = <<>>
    /\ mainpc = "catalog"
    /\ bottom = <<>>
    /\ display = <<>>
    /\ fpool = <<>>
    /\ prelim = <<>>
    /\ out = <<>>
    /\ fpc = "idle"
    /\ vsem_value = 0
    /\ vsem_waiters = <<>>
    /\ vpc = <<>>
    /\ vuri = <<>>
    /\ kept = <<>>
    /\ vrequests = <<>>
    /\ vdoneq = <<>>

\* the failure of the catalogue fetch is swallowed: main goes on with the
\* entries fetched so far
MainCollapse_OnPartial ==
    /\ mainpc = "catalog"
    /\ fapc \in {"returned", "raised"}
    /\ cards' = fetched
    /\ ci' = 1
    /\ by_oracle' = <<>>
    /\ cpc' = "loop"
    /\ mainpc' = "collapse"
    /\ UNCHANGED <<pool, cfgVars, fetchVars, doneq, heap, seq, processed,
                   admitted, bottom, display, catalogVars, filterVars>>

\* lines 276-277: fetch_all_scryfall returned; collapse_by_oracle(cards) starts
MainCollapse ==
    /\ mainpc = "catalog"
    /\ fapc = "returned"
    /\ cards' = fetched
    /\ ci' = 1
    /\ by_oracle' = <<>>
    /\ cpc' = "loop"
    /\ mainpc' = "collapse"
    /\ UNCHANGED <<pool, cfgVars, fetchVars, doneq, heap, seq, processed,
                   admitted, bottom, display, catalogVars, filterVars>>

\* lines 277, 284-299: collapse_by_oracle returned; apply_filters_async is
\* called on its result
MainFilter ==
    /\ mainpc = "collapse"
    /\ cpc = "returned"
    /\ fpool' = pool
    /\ fpc' = "called"
    /\ mainpc' = "filter"
    /\ UNCHANGED <<fcfg, prelim, out, vsem_value, vsem_waiters, vpc, vuri, kept,
                   vrequests, vdoneq, cfgVars, fetchVars, doneq, heap, seq,
                   processed, admitted, bottom, display, catalogVars,
                   collapseVars>>

\* lines 284, 300-310: apply_filters_async returned; the semaphore, the
\* commanders, the heap and the tasks are created
MainMetric ==
    LET names == { fpool[i].name : i \in Range(out) }
    IN  /\ mainpc = "filter"
        /\ fpc = "returned"
        /\ pool' = [j \in 1..Len(out) |-> fpool[out[j]]]
        /\ commanders' = names
        /\ pc' = [c \in names |-> "new"]
        /\ sem_value' = concurrency
        /\ sem_waiters' = <<>>
        /\ woken' = {}
        /\ result' = [c \in names |-> NoResult]
        /\ attempts' = [c \in names |-> 0]
        /\ events' = [c \in names |-> <<>>]
        /\ doneq' = <<>>
        /\ heap' = <<>>
        /\ seq' = 0
        /\ processed' = 0
        /\ admitted' = <<>>
        /\ mainpc' = "loop"
        /\ UNCHANGED <<bottom_k, concurrency, include_errors, only_positive, net,
                       bottom, display, cards, ci, by_oracle, cpc, catalogVars,
                       filterVars>>

NextPipeline ==
    \/ PageReturns
    \/ PageRaises
    \/ PageSleepEnds
    \/ MainCollapse
    \/ mainpc = "collapse" /\ CollapseStep
    \/ mainpc = "collapse" /\ CollapseReturn
    \/ MainFilter
    \/ NextFilter
    \/ MainMetric
    \/ Next

SpecPipeline == InitPipeline /\ [][NextPipeline]_vars

-----------------------------------------------------------------------------
(* Vocabulary of the properties *)

Min(a, b) == IF a <= b THEN a ELSE b

\* the brute-force ascending sort of a sequence of wide numbers
RECURSIVE InsertWide(_, _)
InsertWide(sorted, x) ==
    IF sorted = <<>> THEN <<x>>
    ELSE IF ~WideLT(x, Head(sorted))
    THEN <<Head(sorted)>> \o InsertWide(Tail(sorted), x)
    ELSE <<x>> \o sorted

RECURSIVE SortWide(_)
SortWide(list) ==
    IF list = <<>> THEN <<>>
    ELSE InsertWide(SortWide(Tail(list)), Head(list))

RankKeys(results) == [i \in 1..Len(results) |-> RankKey(results[i])]

HeapResults == [i \in 1..Len(heap) |-> heap[i][3]]

HeapNames == {heap[i][3].name : i \in 1..Len(heap)}

EndOfStream == mainpc \in {"loop", "shown"} /\ processed = Cardinality(commanders)

Absent(res) == res.decks = Wide(None)

Has(events_c, e) == \E i \in 1..Len(events_c) : events_c[i] = e

\* the tasks that have acquired a slot and not released it
Holders == {c \in commanders : Has(events[c], "acquire") /\ ~Has(events[c], "release")}

\* the tasks whose result the loop has taken
Consumed(c) == pc[c] = "done" /\ \A i \in 1..Len(doneq) : doneq[i] # c

InSeq(x, list) == \E i \in 1..Len(list) : list[i] = x

-----------------------------------------------------------------------------
(* Properties *)

\* C1: at the end of the stream the rank-keys of the items left in the heap
\* are the first min(K, N) entries of the ascending brute-force sort of the
\* rank-keys of all admitted items, whatever the order of completion.
C1_RetainedAreKSmallest ==
    EndOfStream =>
        SortWide(RankKeys(HeapResults))
          = SubSeq(SortWide(RankKeys(admitted)), 1, Min(bottom_k, Len(admitted)))

\* the worse of two admitted items arrived last and one of them had to go
C1_Witness ==
    /\ EndOfStream
    /\ bottom_k = 1
    /\ Len(admitted) = 2
    /\ WideLT(RankKey(admitted[1]), RankKey(admitted[2]))
    /\ HeapResults = <<admitted[1]>>

\* C2: between two results (after the push and the conditional pop) the heap
\* holds min(K, items admitted so far) items; so never more than K and, at the
\* end, min(K, N).
C2_HeapSize == Len(heap) = Min(bottom_k, Len(admitted))

C2_Witness ==
    /\ bottom_k = 1
    /\ Len(admitted) = 2
    /\ Len(heap) = 1
    /\ EndOfStream

\* C3: the tasks that have acquired a slot and not yet released it (request
\* in flight or pacing delay running), together with the waiters a release
\* has handed a slot to, are never more than the pool size.
C3_InFlightBounded == Cardinality(Holders \cup woken) <= concurrency

\* a release has handed its slot to the first waiter, which has not resumed
\* yet: the pool is full with that waiter counted, and no slot is free
C3_Witness ==
    /\ woken # {}
    /\ \A c \in woken : pc[c] = "waiting" /\ attempts[c] = 0
    /\ \E c \in commanders : pc[c] = "done"
    /\ Cardinality(Holders \cup woken) = concurrency
    /\ sem_value = 0

\* the Result that c's own response alone determines
OwnResult(c) ==
    IF net[c].kind = "raise"
    THEN Result(c, Wide(None), net[c].text)
    ELSE Result(c, extract_deck_count(net[c].html), "None")

\* C4: a transport error becomes that candidate's own FetchResult (metric
\* absent, error set) and nothing else: each candidate makes one request
\* attempt and yields one result, which depends on its own response only; the
\* loop of main_async is never left early, every result of a finished task is
\* queued or processed, and the output is made after all N are processed.
C4_FailureIsolated ==
    /\ \A c \in commanders :
          /\ attempts[c] <= 1
          /\ pc[c] \in {"pacing", "done"} =>
                /\ attempts[c] = 1
                /\ result[c] = OwnResult(c)
                /\ net[c].kind = "raise" =>
                      Absent(result[c]) /\ result[c].error # "None"
          /\ Cardinality({i \in 1..Len(doneq) : doneq[i] = c}) <= 1
    /\ processed + Len(doneq) = Cardinality({c \in commanders : pc[c] = "done"})
    /\ mainpc = "shown" => processed = Cardinality(commanders)
    /\ mainpc \in {"loop", "shown"}

\* the run is over, one request failed and another returned a number
C4_Witness ==
    /\ mainpc = "shown"
    /\ \E c, d \in commanders :
          /\ net[c].kind = "raise"
          /\ net[d].kind = "ok"
          /\ ~Absent(result[d])
          /\ Consumed(c) /\ Consumed(d)

FetchOrder == <<"acquire", "response", "paced", "release">>

\* C5: for every fetch, failed or not, the events come in the order acquire,
\* response, pacing delay over, release; a slot in its pacing delay is still
\* counted as taken, so nobody else gets it.
C5_ReleaseAfterPacing ==
    /\ \A c \in commanders :
          /\ Len(events[c]) <= Len(FetchOrder)
          /\ events[c] = SubSeq(FetchOrder, 1, Len(events[c]))
          /\ pc[c] = "pacing" => c \in Holders
    /\ sem_value = concurrency - Cardinality(Holders) - Cardinality(woken)
    /\ sem_value >= 0

\* a failed request is in its pacing delay while another task waits for a slot
C5_Witness ==
    \E c \in commanders :
        /\ net[c].kind = "raise"
        /\ pc[c] = "pacing"
        /\ sem_waiters # <<>>
        /\ sem_value = 0

\* C6: five results 50, error, 10, 5, 5 with K = 3 and only-positive off:
\* without include-errors the heap ends with the items 10, 5, 5 and not the
\* errored one; with include-errors it ends with the errored item and the two
\* 5s, and 10 is gone. In every order of arrival.
C6_Scenario ==
    EndOfStream =>
        /\ Len(heap) = 3
        /\ ~include_errors =>
              /\ HeapNames = {3, 4, 5}
              /\ SortWide([i \in 1..Len(heap) |-> heap[i][3].decks])
                   = <<Wide(5), Wide(5), Wide(10)>>
        /\ include_errors =>
              /\ HeapNames = {2, 4, 5}
              /\ result[2].error # "None" /\ Absent(result[2])
              /\ result[4].decks = Wide(5) /\ result[5].decks = Wide(5)

\* the errored item arrived first, held a slot of the heap and lost it
C6_Witness ==
    /\ EndOfStream
    /\ ~include_errors
    /\ Len(admitted) = 5
    /\ admitted[1].name = 2
    /\ admitted[5].name = 3

\* C7: with include-errors, an item without metric is not the one an eviction
\* removes while the heap (with the new item) holds an item with a metric
\* greater than zero; when it is removed, every item has rank-key zero.
C7_AbsentNotEvictedFirst ==
    [][ (include_errors /\ mainpc = "loop" /\ doneq # <<>> /\ seq' = seq + 1) =>
          LET before == Pushed(heap, seq, result[Head(doneq)])
              gone == {i \in 1..Len(before) : ~InSeq(before[i], heap')}
          IN  \A g \in gone :
                Absent(before[g][3]) =>
                    \A i \in 1..Len(before) :
                        /\ before[i][1] = Wide(0)
                        /\ ~(~Absent(before[i][3]) /\ WideLT(Wide(0), before[i][3].decks))
      ]_vars

\* an item without metric stayed and the item with a positive metric, which
\* came after it, was removed
C7_Witness ==
    /\ include_errors
    /\ bottom_k = 1
    /\ Len(admitted) = 2
    /\ Absent(admitted[1])
    /\ WideLT(Wide(0), admitted[2].decks)
    /\ HeapResults = <<admitted[1]>>

\* C8: without include-errors no item whose fetch ended in a transport error
\* is in the final output, also when the heap still holds it at the end.
C8_ErrorsNotShown ==
    (mainpc = "shown" /\ ~include_errors) =>
        \A i \in 1..Len(display) :
            /\ net[display[i].name].kind # "raise"
            /\ display[i].error = "None"

\* the heap ends with an errored item in it, and something is shown
C8_Witness ==
    /\ mainpc = "shown"
    /\ ~include_errors
    /\ \E i \in 1..Len(heap) : net[heap[i][3].name].kind = "raise"
    /\ display # <<>>

\* C9: with only-positive, an item with a definite metric <= 0 is never
\* pushed; an item without metric is admitted whether only-positive is on or
\* off.
C9_OnlyPositive ==
    /\ only_positive =>
          /\ \A i \in 1..Len(admitted) :
                ~(~Absent(admitted[i]) /\ ~WideLT(Wide(0), admitted[i].decks))
          /\ \A i \in 1..Len(heap) :
                ~(~Absent(heap[i][3]) /\ ~WideLT(Wide(0), heap[i][3].decks))
    /\ \A c \in commanders :
          (Consumed(c) /\ Absent(result[c])) => InSeq(result[c], admitted)
    /\ seq = Len(admitted)

\* with only-positive, a zero was passed over and an item without metric was
\* admitted
C9_Witness ==
    /\ only_positive
    /\ Len(admitted) = 1
    /\ \E c, d \in commanders :
          /\ Consumed(c) /\ result[c].decks = Wide(0)
          /\ Consumed(d) /\ Absent(result[d]) /\ admitted = <<result[d]>>

\* the positions of the cards that pass the structural check
Faces == {j \in 1..Len(cards) : is_commander_face(cards[j])}

\* the first card of the input, among those that pass the check, with key k
FirstOf(k) ==
    cards[CHOOSE j \in Faces :
            /\ commander_key(cards[j]) = k
            /\ \A l \in Faces : commander_key(cards[l]) = k => j <= l]

\* C10: the pool returned has exactly one entry for every distinct key of the
\* entries that pass the structural check, namely the first such entry of the
\* input; an entry that fails the check is never in the pool.
C10_FirstSeenWins ==
    cpc = "returned" =>
        /\ \A i, j \in 1..Len(pool) :
              commander_key(pool[i]) = commander_key(pool[j]) => i = j
        /\ \A j \in Faces :
              \E i \in 1..Len(pool) : commander_key(pool[i]) = commander_key(cards[j])
        /\ \A i \in 1..Len(pool) :
              /\ is_commander_face(pool[i])
              /\ \E j \in Faces : commander_key(cards[j]) = commander_key(pool[i])
              /\ pool[i] = FirstOf(commander_key(pool[i]))
        /\ Len(pool) = Cardinality({commander_key(cards[j]) : j \in Faces})

\* three cards: one fails the check, two share a key and differ, and the
\* first of the two is the one in the pool
C10_Witness ==
    /\ cpc = "returned"
    /\ Len(cards) = 3
    /\ ~is_commander_face(cards[1])
    /\ is_commander_face(cards[2])
    /\ is_commander_face(cards[3])
    /\ commander_key(cards[2]) = commander_key(cards[3])
    /\ commander_key(cards[1]) = commander_key(cards[2])
    /\ cards[2] # cards[3]
    /\ pool = <<cards[2]>>

\* the result of a fetch that returned a document without a match
Unknown(res) == Absent(res) /\ res.error = "None"

\* the rank-key the code gives an errored item
ErrorKey == RankKey(Result(0, Wide(None), "ClientConnectorError"))

\* C15 as stated: an item whose document had no match is pushed with the
\* sentinel of an errored item and, whenever the heap holds it at the end, it
\* is in the final output as unknown without error annotation.
C15_AsStated ==
    mainpc = "shown" =>
        \A i \in 1..Len(heap) :
            Unknown(heap[i][3]) =>
                /\ heap[i][1] = Neg(ErrorKey)
                /\ \E j \in 1..Len(display) :
                      ConsoleLines(display)[j]
                        = [decks |-> "?", name |-> heap[i][3].name, tail |-> <<>>]

\* C15 (amended): an item whose document had no match is pushed with the
\* sentinel of an errored item; when the heap holds it at the end it is in the
\* final output, as unknown without error annotation, if the run includes
\* errors, and it is not in the output at all if the run does not.
C15_UnknownShownOnlyWithErrors ==
    /\ \A i \in 1..Len(heap) :
          Unknown(heap[i][3]) =>
              /\ heap[i][1] = Neg(ErrorKey)
              /\ net[heap[i][3].name].kind = "ok"
    /\ mainpc = "shown" =>
          \A i \in 1..Len(heap) :
              Unknown(heap[i][3]) =>
                  IF include_errors
                  THEN \E j \in 1..Len(display) :
                          ConsoleLines(display)[j]
                            = [decks |-> "?", name |-> heap[i][3].name,
                               tail |-> <<>>]
                  ELSE \A j \in 1..Len(display) :
                          display[j].name # heap[i][3].name

\* the run includes errors and ends with an unknown item and an errored item
\* in the heap
C15_Witness ==
    /\ mainpc = "shown"
    /\ include_errors
    /\ \E i, j \in 1..Len(heap) :
          /\ Unknown(heap[i][3])
          /\ net[heap[j][3].name].kind = "raise"
          /\ heap[j][3].error # ""

\* C18: sequence numbers are given in push order, strictly increasing and
\* unique, so two tuples of the heap always differ in (key, sequence number)
\* and no two results are compared; an eviction removes an item of maximal
\* rank-key and, among those, the one with the smallest sequence number.
C18_TieBreak ==
    /\ [](\A i \in 1..Len(heap) :
            /\ heap[i][2] \in 0..(seq - 1)
            /\ heap[i][3] = admitted[heap[i][2] + 1]
            /\ \A j \in 1..Len(heap) : heap[i][2] = heap[j][2] => i = j)
    /\ [][ (mainpc = "loop" /\ doneq # <<>> /\ seq' = seq + 1) =>
             LET before == Pushed(heap, seq, result[Head(doneq)])
                 gone == {i \in 1..Len(before) : ~InSeq(before[i], heap')}
             IN  /\ Cardinality(gone) = Len(before) - Len(heap')
                 /\ \A i, j \in 1..Len(before) :
                        (before[i][1] = before[j][1] /\ before[i][2] = before[j][2])
                            => i = j
                 /\ \A g \in gone : \A i \in 1..Len(before) :
                        /\ ~WideLT(Neg(before[g][1]), Neg(before[i][1]))
                        /\ before[i][1] = before[g][1] => before[g][2] <= before[i][2]
         ]_vars

\* two admitted items had the same rank-key, one had to go, and the heap
\* holds the later one
C18_Witness ==
    /\ bottom_k = 1
    /\ Len(admitted) = 2
    /\ RankKey(admitted[1]) = RankKey(admitted[2])
    /\ Len(heap) = 1
    /\ heap[1][2] = 1
    /\ heap[1][3] = admitted[2]

RECURSIVE DefiniteDecks(_)
DefiniteDecks(results) ==
    IF results = <<>> THEN <<>>
    ELSE (IF Absent(Head(results)) THEN <<>> ELSE <<Head(results).decks>>)
           \o DefiniteDecks(Tail(results))

\* the final list has min(K, D) items, all of them definite, their metrics
\* the min(K, D) smallest definite metrics admitted
SmallestDefiniteShown ==
    LET defs == SortWide(DefiniteDecks(admitted))
        n == Min(bottom_k, Len(defs))
    IN  /\ Len(display) = n
        /\ [i \in 1..Len(display) |-> display[i].decks] = SubSeq(defs, 1, n)
        /\ \A i \in 1..Len(display) : InSeq(display[i], admitted)

\* every definite metric admitted is below the sentinel of line 305
BelowSentinel ==
    \A i \in 1..Len(admitted) :
        ~Absent(admitted[i]) => WideLT(admitted[i].decks, big)

\* C20 as stated: without include-errors, for every input, the final list has
\* min(K, D) items, D being the number of admitted items with a definite
\* metric, and they are the items with the smallest definite metrics.
C20_AsStated == (mainpc = "shown" /\ ~include_errors) => SmallestDefiniteShown

\* C20: without include-errors, for every input whose definite metrics are
\* all below the sentinel 10**12, the final list has min(K, D) items, D being
\* the number of admitted items with a definite metric, all of them definite
\* and their metrics the min(K, D) smallest definite metrics admitted: an item
\* without metric takes no place from an item with one.
C20_DisplayedAreSmallestDefinite ==
    (mainpc = "shown" /\ ~include_errors /\ BelowSentinel) => SmallestDefiniteShown

\* an item without metric came first and held the only place of the heap,
\* then an item with a metric below the sentinel took it
C20_Witness ==
    /\ mainpc = "shown"
    /\ ~include_errors
    /\ bottom_k = 1
    /\ Len(admitted) = 2
    /\ Absent(admitted[1])
    /\ ~Absent(admitted[2])
    /\ BelowSentinel
    /\ display = <<admitted[2]>>

\* every task has gone once through acquire, response, pacing and release,
\* every result is processed and the pool is free again
AllFetchedAndFree ==
    /\ \A c \in commanders : pc[c] = "done" /\ events[c] = FetchOrder
    /\ processed = Cardinality(commanders)
    /\ doneq = <<>>
    /\ mainpc = "shown"
    /\ sem_value = concurrency
    /\ sem_waiters = <<>>
    /\ woken = {}

\* C19: with a pool of at least one slot and requests that all return or fail,
\* every task in the end acquires a slot, delivers its result and releases the
\* slot once, and the loop processes all N results and ends with every slot
\* free.
C19_AllComplete == <>AllFetchedAndFree

\* the run is over and there were more candidates than slots, so a task waited
C19_Witness ==
    /\ AllFetchedAndFree
    /\ Cardinality(commanders) > concurrency
    /\ \E c \in commanders : net[c].kind = "raise"

\* the entries of the pages answered to the first n requests, in request order
RECURSIVE PagesOf(_)
PagesOf(n) ==
    IF n = 0 THEN <<>>
    ELSE PagesOf(n - 1) \o Answer(requests[n][1]).data

\* a response that parses and announces a further page
Continues(u) == Answer(u).fail = "none" /\ Answer(u).has_more = "True"

\* C16: the first request carries the query parameters; every later request
\* targets the continuation reference of the response to the request just
\* before it and carries no parameters; a request is followed by another only
\* if its response announced a further page; the returned catalogue is the
\* concatenation of the entries of all pages in request order.
C16_PageSequence ==
    /\ fapc # "idle" =>
          /\ Len(requests) >= 1
          /\ requests[1] = <<SCRYFALL_API, QueryParams>>
    /\ \A j \in 2..Len(requests) :
          /\ Continues(requests[j - 1][1])
          /\ requests[j][1] = Answer(requests[j - 1][1]).next_page
          /\ requests[j][2] = "None"
    /\ fapc = "returned" =>
          /\ ~Continues(requests[Len(requests)][1])
          /\ fetched = PagesOf(Len(requests))

\* three pages were fetched, the second reached by skipping ahead or not, and
\* the catalogue has entries
C16_Witness ==
    /\ fapc = "returned"
    /\ Len(requests) = MaxPages + 1
    /\ Len(fetched) >= 4

\* lines 165-177: the verdict of the page walk that starts at uri, for card c
RECURSIVE PageWalk(_, _)
PageWalk(uri, c) ==
    IF ~Truthy(uri) THEN FALSE
    ELSE LET data == Prints(uri)
         IN  IF data.fail THEN looks_like_ptk_fast(c)
             ELSE IF HasPtkPrinting(data) THEN TRUE
             ELSE PageWalk(data.next_page, c)

\* lines 159-177, as a function of the card and the verification source
is_ptk_strict(c) ==
    IF ~Truthy(c.prints_search_uri) THEN looks_like_ptk_fast(c)
    ELSE PageWalk(c.prints_search_uri, c)

\* a request of the walk from uri fails before a ptk printing is found
RECURSIVE WalkFails(_)
WalkFails(uri) ==
    IF ~Truthy(uri) THEN FALSE
    ELSE LET data == Prints(uri)
         IN  IF data.fail THEN TRUE
             ELSE IF HasPtkPrinting(data) THEN FALSE
             ELSE WalkFails(data.next_page)

\* the pages of the walk from uri state a ptk printing
RECURSIVE PagesSayPtk(_)
PagesSayPtk(uri) ==
    IF ~Truthy(uri) THEN FALSE
    ELSE LET data == Prints(uri)
         IN  IF data.fail THEN FALSE
             ELSE IF HasPtkPrinting(data) THEN TRUE
             ELSE PagesSayPtk(data.next_page)

StrictMode == fpc # "idle" /\ fcfg.exclude_ptk /\ fcfg.ptk_strict

\* C12: in strict mode a failed verification request never leaves the filter
\* stage; the item it belongs to is kept or dropped by looks_like_ptk_fast,
\* every item whose requests all succeed is kept or dropped by what its own
\* pages say, and the call returns once every task is done and taken.
C12_FallbackIsLocal ==
    /\ fpc # "raised"
    /\ (StrictMode /\ fpc = "verify") =>
          ~(vdoneq = <<>> /\ \A i \in DOMAIN vpc : vpc[i] = "done")
    /\ (StrictMode /\ fpc = "returned") =>
          \A i \in Range(prelim) :
             LET c == fpool[i]
                 uri == c.prints_search_uri
             IN  IF Truthy(uri) /\ WalkFails(uri)
                 THEN (i \in Range(out)) <=> ~looks_like_ptk_fast(c)
                 ELSE IF Truthy(uri)
                 THEN (i \in Range(out)) <=> ~PagesSayPtk(uri)
                 ELSE (i \in Range(out)) <=> ~looks_like_ptk_fast(c)

\* the call returned from a pool where one item's second page failed and the
\* heuristic kept it, another's request failed and the heuristic dropped it,
\* and a third was verified on its pages
C12_Witness ==
    /\ StrictMode
    /\ fpc = "returned"
    /\ \E i, j, k \in Range(prelim) :
          /\ fpool[i].prints_search_uri = "late_fail" /\ i \in Range(out)
          /\ fpool[j].prints_search_uri = "fail" /\ j \notin Range(out)
          /\ fpool[k].prints_search_uri = "reprint" /\ k \notin Range(out)

\* the exclusion rule named r is enabled in cfg
Enabled(r, cfg) ==
    CASE r = "funny" -> cfg.exclude_funny
      [] r = "partner" -> cfg.exclude_partner
      [] r = "background" -> cfg.exclude_background
      [] r = "companion" -> cfg.exclude_companion
      [] r = "doctors_companion" -> cfg.exclude_doctors_companion
      [] r = "vanilla" -> cfg.exclude_vanilla
      [] r = "recent" -> cfg.exclude_recent
      [] r = "ptk" -> cfg.exclude_ptk
      [] r = "doctors" -> cfg.exclude_doctors

\* the exclusion rule named r holds of item c, the PTK rule by the printings
\* in strict mode and by the heuristic in fast mode
Holds(r, c, cfg) ==
    CASE r = "funny" -> is_funny_set(c)
      [] r = "partner" -> has_partner(c)
      [] r = "background" -> has_background_ability(c)
      [] r = "companion" -> has_companion(c)
      [] r = "doctors_companion" -> has_doctors_companion(c)
      [] r = "vanilla" -> is_vanilla(c)
      [] r = "recent" -> is_recent(c, cfg.recent_days)
      [] r = "ptk" -> IF cfg.ptk_strict THEN is_ptk_strict(c)
                      ELSE looks_like_ptk_fast(c)
      [] r = "doctors" -> is_doctor(c)

\* the items of the pool of which no enabled exclusion rule holds
Survivors ==
    { i \in 1..Len(fpool) :
        \A r \in Rules : ~(Enabled(r, fcfg) /\ Holds(r, fpool[i], fcfg)) }

\* C13: whatever the order in which the verification tasks complete, the call
\* returns each item of which no enabled exclusion rule holds, once, and no
\* other item: the returned set is a function of the pool, the configuration
\* and the verification outcomes alone.
C13_SurvivorSet ==
    fpc = "returned" =>
        /\ Range(out) = Survivors
        /\ Len(out) = Cardinality(Survivors)

\* a strict call returned two survivors in the reverse of their pool order
C13_Witness ==
    /\ StrictMode
    /\ fpc = "returned"
    /\ Len(out) >= 2
    /\ out[1] > out[2]
    /\ Len(out) < Len(fpool)

\* item i of the pool passes the first pass and has a printings uri
Candidate(i) == ~Skip(fpool[i], fcfg) /\ Truthy(fpool[i].prints_search_uri)

\* C14 as stated: every verification request belongs to an item that passed
\* the first pass and that looks_like_ptk_fast flags.
C14_AsStated ==
    \A j \in 1..Len(vrequests) :
        /\ ~Skip(fpool[vrequests[j][1]], fcfg)
        /\ looks_like_ptk_fast(fpool[vrequests[j][1]])

\* C14: verification requests are issued in strict mode only, and only for
\* items that passed the first pass and have a printings uri, flagged by the
\* heuristic or not; the first request of an item targets that uri, and by
\* the return every such item has had its request.
C14_RequestsForCandidates ==
    /\ vrequests # <<>> => StrictMode
    /\ \A i \in 1..Len(fpool) :
          LET mine == { j \in 1..Len(vrequests) : vrequests[j][1] = i }
          IN  IF mine # {}
              THEN /\ Candidate(i)
                   /\ vrequests[CHOOSE j \in mine : \A k \in mine : j <= k][2]
                         = fpool[i].prints_search_uri
              ELSE ~(StrictMode /\ fpc = "returned" /\ Candidate(i))

\* a strict call returned after requesting the printings of an item the
\* heuristic does not flag, beside an item the first pass dropped and an item
\* without a printings uri, neither of which was requested
C14_Witness ==
    /\ StrictMode
    /\ fpc = "returned"
    /\ \E j \in 1..Len(vrequests) : ~looks_like_ptk_fast(fpool[vrequests[j][1]])
    /\ \E i \in 1..Len(fpool) : Skip(fpool[i], fcfg)
    /\ \E i \in Range(prelim) : ~Truthy(fpool[i].prints_search_uri)

\* the tasks that hold a slot of the verification semaphore
VHolders == { i \in DOMAIN vpc : vpc[i] \in {"woken", "request", "sleep"} }

\* the checks in flight: is_ptk_strict is running
VInFlight == { i \in DOMAIN vpc : vpc[i] \in {"request", "sleep"} }

\* C17 as stated: the checks in flight never outnumber the concurrency passed
\* to apply_filters_async.
C17_AsStated ==
    fpc = "verify" => Cardinality(VInFlight) <= fcfg.concurrency

\* C17: the checks in flight never outnumber max(2, concurrency); the slots
\* held and the slots free always add up to that number.
C17_InFlightBounded ==
    fpc = "verify" =>
        /\ Cardinality(VInFlight) <= Slots(fcfg)
        /\ vsem_value >= 0
        /\ vsem_value + Cardinality(VHolders) = Slots(fcfg)

\* every slot is taken by a running check and a further task is queued
C17_Witness ==
    /\ fpc = "verify"
    /\ Cardinality(VInFlight) = Slots(fcfg)
    /\ \E i \in DOMAIN vpc : vpc[i] = "waiting"

\* the request that failed: the last one of the log
FailedRequest == requests[Len(requests)]

\* C11: once the request of a catalogue page has failed (in transport, status
\* or parsing) the run is over: the failed page was requested once and is the
\* last request of the catalogue fetch, the de-duplication and the filter
\* never start, no verification and no metric request is issued, and nothing
\* is selected or shown.
C11_CatalogFailureAborts ==
    fapc = "raised" =>
        /\ mainpc = "catalog"
        /\ \A j \in 1..(Len(requests) - 1) : requests[j][1] # FailedRequest[1]
        /\ cards = <<>> /\ pool = <<>>
        /\ fpc = "idle" /\ prelim = <<>> /\ out = <<>>
        /\ vrequests = <<>>
        /\ commanders = {} /\ attempts = <<>>
        /\ heap = <<>> /\ bottom = <<>> /\ display = <<>>

\* the second page failed after the first had delivered entries
C11_Witness ==
    /\ fapc = "raised"
    /\ Len(requests) = 2
    /\ Len(fetched) > 0
    /\ Answer(FailedRequest[1]).fail = "parse"

=============================================================================
